---- MODULE Spec2Model ----
(***************************************************************************)
(* Temporary-mailbox lifecycle of the Telegram temp-mail bot:              *)
(*   - the registry (database/mongo_client.py, one MongoDB collection      *)
(*     with a unique index on telegram_id),                                *)
(*   - the address generator (email_services/email_generator.py),          *)
(*   - the "new email" handlers (handlers/command_handlers.py and          *)
(*     handlers/callback_handlers.py), one coroutine per request,          *)
(*     interleaving at their await points,                                 *)
(*   - the two background loops (utils/background_tasks.py, bot.py),       *)
(*   - IMAPClient.fetch_message_list (email/imap_client.py).               *)
(*                                                                         *)
(* Time is counted in minutes.  Strings the code builds or splits are      *)
(* sequences of one-character strings.                                     *)
(***************************************************************************)
EXTENDS Integers, Sequences, FiniteSets

\* ------------------------------------------------------------------ bounds

\* Latest clock reading (minutes) the model explores.
MaxTime == 61

\* increment_message_count is explored up to this many calls per entry.
MaxCount == 2

\* Sessions the IMAP server hands out before the model stops opening more.
MaxSessions == 2

\* Largest UID of the mailbox, and largest limit handed to fetch_message_list.
MaxUid == 3

MaxLimit == 4
\* Largest UID of a message a poll or an inbox request finds.
MaxNew == 2

\* Poll cycles are followed while every message_count is below this.
MaxPolled == 1

\* Largest configured BACKGROUND_FETCH_INTERVAL (seconds) explored.
MaxInterval == 120

\* Most attachments on a message, and most transient files a parser tracks
\* before the model stops writing more.
MaxAttachments == 2

MaxFiles == 2

MaxMessages == 1

\* ------------------------------------------------------- program constants

\* config.py: EMAIL_EXPIRY_TIME = timedelta(hours=1), in minutes.
EMAIL_EXPIRY_TIME == 60

EMAIL_PREFIX_LENGTH == 6

EMAIL_RANDOM_LENGTH == 8

EMAIL_MAX_GENERATION_ATTEMPTS == 10

\* config.py: MAX_INBOX_MESSAGES default.
MAX_INBOX_MESSAGES == 5

\* config.py: MAX_TEMP_FILE_AGE = 3600 seconds, in minutes.
MAX_TEMP_FILE_AGE == 60

\* config.py: BACKGROUND_FETCH_INTERVAL default (seconds).
BACKGROUND_FETCH_INTERVAL == 60

\* background_tasks.py email_fetching_loop: the 60 of
\* asyncio.sleep(min(BACKGROUND_FETCH_INTERVAL, 60)).
ERROR_SLEEP_SECONDS == 60

\* imap_client.py search_emails: since_date.strftime("%d-%b-%Y") keeps the
\* day of the instant only; a day in minutes.
MINUTES_PER_DAY == 1440

\* mongo_client.py cleanup_temp_files: timedelta(days=30), in minutes.
RETENTION_PERIOD == 43200

\* config.py: EMAIL_DOMAIN default "seveton.site".
EMAIL_DOMAIN == <<"s", "e", "v", "e", "t", "o", "n", ".", "s", "i", "t", "e">>

\* config.py: EMAIL_ALLOWED_CHARS.
EMAIL_ALLOWED_CHARS ==
    {"a", "b", "c", "d", "e", "f", "g", "h", "i", "j", "k", "l", "m",
     "n", "o", "p", "q", "r", "s", "t", "u", "v", "w", "x", "y", "z",
     "0", "1", "2", "3", "4", "5", "6", "7", "8", "9"}

\* The characters random.choices is explored with (subsets of
\* EMAIL_ALLOWED_CHARS) for the prefix and for the suffix, and the requester
\* identities and request slots.
PrefixChars == {"a"}

RandomChars == {"a", "7"}

Identities == {1, 2}

Reqs == {"r1", "r2"}

\* The clock readings explored: the start and the minutes around the expiry
\* of an entry created at the start (FineInstants), or only the start and a
\* reading after that expiry (CoarseInstants).
FineInstants == {0} \cup ((EMAIL_EXPIRY_TIME - 1) .. MaxTime)

CoarseInstants == {0, MaxTime}

\* The clock readings around the end of the retention period of an entry
\* deactivated at MaxTime.
PurgeInstants ==
    {0, MaxTime, RETENTION_PERIOD + MaxTime, RETENTION_PERIOD + MaxTime + 1}

\* Python's None, for an optional timestamp, string or reason.
None == << >>

VARIABLES
    now,        \* datetime.utcnow(), in minutes
    registry,   \* the MongoDB collection: a set of user documents
    nextId,     \* next _id the collection assigns
    req,        \* per request slot: the "new email" handler coroutine
    bg,         \* BackgroundTasks: running flag and the two loop tasks
    fl,         \* one call of IMAPClient.fetch_message_list
    imap,       \* per consumer: its IMAPClient (connection, connected, folder)
    srv,        \* the IMAP server: reachable, its open sessions
    cycle,      \* one run of BackgroundTasks._fetch_emails_for_all_users
    view        \* the answer of the last inbox request

\* The mail side of the state: the IMAP clients and server, the poll cycle and
\* the inbox answer.
mail == <<imap, srv, cycle, view>>

vars == <<now, registry, nextId, req, bg, fl, imap, srv, cycle, view>>

\* ----------------------------------------------------------------- strings

\* Python's s.split(sep)[0]: the part of s before the first sep (all of s when
\* sep does not occur).
SplitFirst(s, sep) ==
    LET hits == {i \in 1..Len(s) : s[i] = sep}
    IN  IF hits = {} THEN s
        ELSE SubSeq(s, 1, (CHOOSE i \in hits : \A j \in hits : i <= j) - 1)

\* generate_random_string(length, True): the strings random.choices may
\* return, explored on the one-character-repeated strings over chars.
generate_random_string(length, chars) ==
    {[i \in 1..length |-> c] : c \in chars}

\* generate_user_prefix(None): a random prefix of EMAIL_PREFIX_LENGTH.  The
\* handlers modelled here (/new and the "new_email" button) pass no custom
\* prefix.
generate_user_prefix == generate_random_string(EMAIL_PREFIX_LENGTH, PrefixChars)

\* f"{prefix}_{random_suffix}@{EMAIL_DOMAIN}"
FormatEmail(prefix, random_suffix) ==
    prefix \o <<"_">> \o random_suffix \o <<"@">> \o EMAIL_DOMAIN

\* email.split('@')[0].split('_')[0]
PrefixOf(email) == SplitFirst(SplitFirst(email, "@"), "_")

\* ---------------------------------------------------------------- registry

\* Mutation of create_user's document: expires_at without the TTL added.
NewUserDocNoTtl(tid, email, prefix, t) ==
    [telegram_id |-> tid,
     email |-> email,
     prefix |-> IF prefix # None THEN prefix ELSE PrefixOf(email),
     created_at |-> t,
     expires_at |-> t,
     is_active |-> TRUE,
     last_checked |-> t,
     message_count |-> 0,
     total_messages_received |-> 0,
     last_message_date |-> None,
     deactivated_at |-> None,
     deactivation_reason |-> None]

\* The document create_user builds: created_at = utcnow(),
\* expires_at = created_at + EMAIL_EXPIRY_TIME, active, zeroed counters.
NewUserDoc(tid, email, prefix, t) ==
    [telegram_id |-> tid,
     email |-> email,
     prefix |-> IF prefix # None THEN prefix ELSE PrefixOf(email),
     created_at |-> t,
     expires_at |-> t + EMAIL_EXPIRY_TIME,
     is_active |-> TRUE,
     last_checked |-> t,
     message_count |-> 0,
     total_messages_received |-> 0,
     last_message_date |-> None,
     deactivated_at |-> None,
     deactivation_reason |-> None]

\* insert_one stamps the document with a fresh _id.
WithId(doc, oid) ==
    [f \in (DOMAIN doc) \cup {"oid"} |-> IF f = "oid" THEN oid ELSE doc[f]]

\* Mutations of the unique index: no index at all, and an index that covers
\* the active documents only.
DuplicateKeyNever(coll, doc) == FALSE

DuplicateKeyAmongActive(coll, doc) ==
    \E d \in coll : d.telegram_id = doc.telegram_id /\ d.is_active

\* The unique index on telegram_id (_create_indexes): insert_one raises
\* DuplicateKeyError when any document, active or not, has the telegram_id.
DuplicateKey(coll, doc) ==
    \E d \in coll : d.telegram_id = doc.telegram_id

\* collection.find_one({"telegram_id": tid[, "is_active": True]}): the set of
\* documents it may return; empty stands for None.
get_user(coll, tid, active_only) ==
    {d \in coll : d.telegram_id = tid /\ (active_only => d.is_active)}

\* collection.find_one({"email": email[, "is_active": True]}).
get_user_by_email(coll, email, active_only) ==
    {d \in coll : d.email = email /\ (active_only => d.is_active)}

\* collection.find({"is_active": True})
get_all_active_users(coll) == {d \in coll : d.is_active}

\* update_one(filter, update): updates pairs each matched document with its
\* updated form.  The outcomes [coll, ok] it may have, where ok is
\* modified_count > 0 (a matched document the update does not change is not
\* counted as modified).
UpdateOne(coll, updates) ==
    IF updates = {} THEN {[coll |-> coll, ok |-> FALSE]}
    ELSE {[coll |-> (coll \ {u[1]}) \cup {u[2]}, ok |-> u[2] # u[1]] :
             u \in updates}

DeactivatedDoc(d, t) ==
    [d EXCEPT !.is_active = FALSE, !.deactivated_at = <<t>>]

\* Mutation of deactivate_user: the filter without "is_active": True.
deactivate_userAnyState(coll, tid, t) ==
    UpdateOne(coll, {<<d, [d EXCEPT !.is_active = FALSE, !.deactivated_at = <<t>>]>> :
                        d \in {e \in coll : e.telegram_id = tid}})

\* deactivate_user: {"$set": {"is_active": False, "deactivated_at": utcnow()}}
\* on the identity's active document.
deactivate_user(coll, tid, t) ==
    UpdateOne(coll, {<<d, DeactivatedDoc(d, t)>> : d \in get_user(coll, tid, TRUE)})

\* Mutation of the $set: the epoch is written in place of utcnow().
TouchedDocEpoch(d, t) == [d EXCEPT !.last_checked = 0]

TouchedDoc(d, t) == [d EXCEPT !.last_checked = t]

\* update_last_checked: {"$set": {"last_checked": utcnow()}} on the
\* identity's active document.
update_last_checked(coll, tid, t) ==
    UpdateOne(coll, {<<d, TouchedDoc(d, t)>> : d \in get_user(coll, tid, TRUE)})

\* Mutation of the $inc: total_messages_received is left out.
CountedDocOneCounter(d, t) ==
    [d EXCEPT !.message_count = @ + 1, !.last_message_date = <<t>>]

CountedDoc(d, t) ==
    [d EXCEPT !.message_count = @ + 1,
              !.total_messages_received = @ + 1,
              !.last_message_date = <<t>>]

\* increment_message_count: $inc both counters, $set last_message_date, on
\* the identity's active document.
increment_message_count(coll, tid, t) ==
    UpdateOne(coll, {<<d, CountedDoc(d, t)>> : d \in get_user(coll, tid, TRUE)})

\* Mutation of the sweep's filter: $lte in place of $lt.
IsExpiredInclusive(d, t) == d.is_active /\ d.expires_at <= t

\* The filter of delete_expired_users: {"is_active": True,
\* "expires_at": {"$lt": now}}.
IsExpired(d, t) == d.is_active /\ d.expires_at < t

ExpiredDoc(d, t) ==
    [d EXCEPT !.is_active = FALSE,
              !.deactivated_at = <<t>>,
              !.deactivation_reason = <<"expired">>]

\* Mutation of delete_expired_users: the filter without "is_active": True.
delete_expired_usersAnyState(coll, t) ==
    LET expired == {d \in coll : d.expires_at < t}
    IN  [coll |-> (coll \ expired) \cup {ExpiredDoc(d, t) : d \in expired},
         count |-> Cardinality(expired)]

\* delete_expired_users: update_many over the filter; returns modified_count.
delete_expired_users(coll, t) ==
    LET expired == {d \in coll : IsExpired(d, t)}
    IN  [coll |-> (coll \ expired) \cup {ExpiredDoc(d, t) : d \in expired},
         count |-> Cardinality(expired)]

\* Mutation of the purge's filter: $lte in place of $lt.
IsPurgeableInclusive(d, t) ==
    /\ ~d.is_active
    /\ d.deactivated_at # None
    /\ d.deactivated_at[1] <= t - RETENTION_PERIOD

\* The filter of cleanup_temp_files: {"is_active": False,
\* "deactivated_at": {"$lt": utcnow() - timedelta(days=30)}}.
IsPurgeable(d, t) ==
    /\ ~d.is_active
    /\ d.deactivated_at # None
    /\ d.deactivated_at[1] < t - RETENTION_PERIOD

\* cleanup_temp_files: delete_many over the filter; returns deleted_count.
cleanup_temp_files(coll, t) ==
    LET old == {d \in coll : IsPurgeable(d, t)}
    IN  [coll |-> coll \ old, count |-> Cardinality(old)]

\* ---------------------------------------------------------------- requests

\* A request slot with no handler running.  attempt and created_at are locals
\* of generate_unique_email and create_user: they are cleared when those
\* return.  deactivated is what create_user's deactivate_user call reported
\* (whether it modified an entry).
IdleReq ==
    [pc |-> "idle", tid |-> 0, prefix |-> None, email |-> None, attempt |-> 0,
     created_at |-> 0, deactivated |-> FALSE, status |-> "none", error |-> "",
     existing_email |-> None, racers |-> {}]

\* Requests of the same identity that are past the pre-check and have not yet
\* inserted (generating, or inside create_user).
InFlight(tid, r) ==
    {q \in Reqs \ {r} : req[q].tid = tid
                        /\ req[q].pc \in {"generating", "creating", "inserting"}}

\* Mutation of generate_email_with_validation: the pre-check is skipped.
NewEmailCommandNoPreCheck(r, tid) ==
    /\ req[r].pc = "idle"
    /\ \E prefix \in generate_user_prefix :
         req' = [req EXCEPT ![r] =
                   [IdleReq EXCEPT !.pc = "generating", !.tid = tid,
                                   !.prefix = prefix]]
    /\ UNCHANGED <<now, registry, nextId, bg, fl, mail>>

\* new_email_command / handle_new_email up to the end of the pre-check of
\* generate_email_with_validation: get_user(telegram_id); an active entry
\* answers user_already_has_email with its address, otherwise the prefix is
\* drawn and generate_unique_email starts.
NewEmailCommand(r, tid) ==
    /\ req[r].pc = "idle"
    /\ LET existing == get_user(registry, tid, TRUE)
       IN  IF existing # {}
           THEN \E d \in existing :
                    req' = [req EXCEPT ![r] =
                              [IdleReq EXCEPT !.pc = "done", !.tid = tid,
                                  !.status = "user_already_has_email",
                                  !.existing_email = d.email]]
           ELSE \E prefix \in generate_user_prefix :
                    req' = [q \in Reqs |->
                              IF q = r
                              THEN [IdleReq EXCEPT !.pc = "generating",
                                       !.tid = tid, !.prefix = prefix,
                                       !.racers = InFlight(tid, r)]
                              ELSE IF q \in InFlight(tid, r)
                              THEN [req[q] EXCEPT !.racers = @ \cup {r}]
                              ELSE req[q]]
    /\ UNCHANGED <<now, registry, nextId, bg, fl, mail>>

\* Mutation of the uniqueness lookup: active entries only.
LookupExistingActiveOnly(coll, email) == get_user_by_email(coll, email, TRUE)

\* The uniqueness lookup of generate_unique_email:
\* get_user_by_email(email, active_only=False).
LookupExisting(coll, email) == get_user_by_email(coll, email, FALSE)

\* One iteration of generate_unique_email's for loop: draw a suffix, build
\* the address, look it up with get_user_by_email(email, active_only=False).
\* A free address is returned (create_user is called next); after
\* EMAIL_MAX_GENERATION_ATTEMPTS collisions ValueError is raised, which
\* generate_email_with_validation turns into generation_failed.
GenerateUniqueEmailAttempt(r) ==
    /\ req[r].pc = "generating"
    /\ req[r].attempt < EMAIL_MAX_GENERATION_ATTEMPTS
    /\ \E random_suffix \in generate_random_string(EMAIL_RANDOM_LENGTH, RandomChars) :
         LET email == FormatEmail(req[r].prefix, random_suffix)
             existing_user == LookupExisting(registry, email)
         IN  req' = [req EXCEPT ![r] =
                 IF existing_user = {}
                 THEN [@ EXCEPT !.pc = "creating", !.email = email,
                                !.prefix = PrefixOf(email), !.attempt = 0]
                 ELSE IF @.attempt + 1 = EMAIL_MAX_GENERATION_ATTEMPTS
                 THEN [@ EXCEPT !.pc = "done", !.attempt = 0,
                                !.status = "generation_failed",
                                !.error = "Failed to generate unique email"]
                 ELSE [@ EXCEPT !.attempt = @ + 1]]
    /\ UNCHANGED <<now, registry, nextId, bg, fl, mail>>

\* An iteration of the same loop in which get_user_by_email raises (the
\* database is not connected, or find_one fails): the except clause logs and
\* the loop goes on to its next attempt, or raises ValueError after the last.
GenerateUniqueEmailLookupFails(r) ==
    /\ req[r].pc = "generating"
    /\ req[r].attempt < EMAIL_MAX_GENERATION_ATTEMPTS
    /\ req' = [req EXCEPT ![r] =
                 IF @.attempt + 1 = EMAIL_MAX_GENERATION_ATTEMPTS
                 THEN [@ EXCEPT !.pc = "done", !.attempt = 0,
                                !.status = "generation_failed",
                                !.error = "Failed to generate unique email"]
                 ELSE [@ EXCEPT !.attempt = @ + 1]]
    /\ UNCHANGED <<now, registry, nextId, bg, fl, mail>>

\* create_user, first half: await self.deactivate_user(telegram_id), then
\* created_at = datetime.utcnow() and the document is built.
CreateUserDeactivate(r) ==
    /\ req[r].pc = "creating"
    /\ \E out \in deactivate_user(registry, req[r].tid, now) :
         /\ registry' = out.coll
         /\ req' = [req EXCEPT ![r].pc = "inserting", ![r].created_at = now,
                               ![r].deactivated = out.ok]
    /\ UNCHANGED <<now, nextId, bg, fl, mail>>

\* create_user, second half: insert_one.  DuplicateKeyError becomes
\* ValueError("User already exists"), which the handler's except answers
\* with ERROR_MESSAGES['generation_failed']; otherwise the handler answers
\* with the new address.
CreateUserInsert(r) ==
    /\ req[r].pc = "inserting"
    /\ LET user_doc == NewUserDoc(req[r].tid, req[r].email, req[r].prefix,
                                  req[r].created_at)
       IN  IF DuplicateKey(registry, user_doc)
           THEN /\ req' = [req EXCEPT ![r].pc = "done", ![r].created_at = 0,
                                      ![r].status = "generation_failed",
                                      ![r].error = "User already exists"]
                /\ UNCHANGED <<registry, nextId, mail>>
           ELSE /\ registry' = registry \cup {WithId(user_doc, nextId)}
                /\ nextId' = nextId + 1
                /\ req' = [req EXCEPT ![r].pc = "done", ![r].created_at = 0,
                                      ![r].status = "email_created"]
    /\ UNCHANGED <<now, bg, fl, mail>>

\* The handler has answered and returns: the slot is free for a new request.
HandlerReturn(r) ==
    /\ req[r].pc = "done"
    /\ req' = [q \in Reqs |->
                 IF q = r THEN IdleReq
                 ELSE [req[q] EXCEPT !.racers = @ \ {r}]]
    /\ UNCHANGED <<now, registry, nextId, bg, fl, mail>>

\* handle_confirm_delete: deactivate_user(user_id).
HandleConfirmDelete(tid) ==
    /\ \E out \in deactivate_user(registry, tid, now) :
         /\ registry' = out.coll
    /\ UNCHANGED <<now, nextId, req, bg, fl, mail>>

\* A call of delete_expired_users (the expiry sweep).
DeleteExpiredUsersCall ==
    /\ LET out == delete_expired_users(registry, now)
       IN  /\ registry' = out.coll
    /\ UNCHANGED <<now, nextId, req, bg, fl, mail>>

\* A call of MongoDBClient.cleanup_temp_files (the retention purge).
CleanupTempFilesCall ==
    /\ registry' = cleanup_temp_files(registry, now).coll
    /\ UNCHANGED <<now, nextId, req, bg, fl, mail>>

\* A call of increment_message_count(telegram_id).
IncrementMessageCountCall(tid) ==
    /\ \A d \in registry : d.telegram_id = tid => d.message_count < MaxCount
    /\ \E out \in increment_message_count(registry, tid, now) :
         /\ registry' = out.coll
    /\ UNCHANGED <<now, nextId, req, bg, fl, mail>>

\* A call of update_last_checked(telegram_id).
UpdateLastCheckedCall(tid) ==
    /\ \E out \in update_last_checked(registry, tid, now) :
         /\ registry' = out.coll
    /\ UNCHANGED <<now, nextId, req, bg, fl, mail>>

\* The clock advances to a later reading.
Tick(instants) ==
    /\ \E t \in instants : t > now /\ now' = t
    /\ UNCHANGED <<registry, nextId, req, bg, fl, mail>>

\* ------------------------------------------------------ fetch_message_list

Min(a, b) == IF a < b THEN a ELSE b

Max(a, b) == IF a > b THEN a ELSE b

\* Python's s[start:], start negative counting from the end.
PySliceFrom(s, start) ==
    LET lo == IF start < 0 THEN Max(Len(s) + start, 0) ELSE Min(start, Len(s))
    IN  SubSeq(s, lo + 1, Len(s))

\* Python's reversed(s).
Reversed(s) == [i \in 1..Len(s) |-> s[Len(s) + 1 - i]]

\* The strictly ascending UID lists search_emails may return.
RECURSIVE Ascending(_)
Ascending(S) ==
    IF S = {} THEN << >>
    ELSE LET m == CHOOSE x \in S : \A y \in S : x <= y
         IN  <<m>> \o Ascending(S \ {m})

\* fetch_message_list on the search result uids: uids[-limit:] when
\* len(uids) > limit, then fetch_message for each of reversed(uids); a fetch
\* that fails (returns None or raises) is skipped.  A message is its UID.
fetch_message_list(uids, limit, failing) ==
    IF uids = << >> THEN << >>
    ELSE LET kept == IF Len(uids) > limit THEN PySliceFrom(uids, 0 - limit)
                     ELSE uids
         IN  SelectSeq(Reversed(kept), LAMBDA uid : uid \notin failing)

\* _parse_email_message: the record of a message; when the extraction raises,
\* the except clause returns the degraded record with parse_error True.
parse_email_message(uid, wellformed) ==
    IF wellformed
    THEN [uid |-> uid, subject |-> "subject", parse_error |-> FALSE]
    ELSE [uid |-> uid, subject |-> "Parse Error", parse_error |-> TRUE]

\* Mutation of fetch_message: a message that fails to parse is dropped.
fetch_messageDropsUnparsed(uid, fetched, wellformed) ==
    IF ~fetched \/ ~wellformed THEN {}
    ELSE {parse_email_message(uid, wellformed)}

\* fetch_message(uid): None (the empty set) when the server's FETCH fails or
\* raises, otherwise the record _parse_email_message returns.
fetch_message(uid, fetched, wellformed) ==
    IF ~fetched THEN {}
    ELSE {parse_email_message(uid, wellformed)}

\* The list fetch_message_list returns, as records: a UID is skipped when
\* fetch_message gives None for it.
FetchedRecords(uids, limit, failing, malformed) ==
    LET none == {uid \in {uids[i] : i \in 1..Len(uids)} :
                    fetch_message(uid, uid \notin failing, uid \notin malformed) = {}}
        msgs == fetch_message_list(uids, limit, none)
    IN  [i \in 1..Len(msgs) |->
            CHOOSE r \in fetch_message(msgs[i], TRUE, msgs[i] \notin malformed) : TRUE]

\* A caller invokes fetch_message_list: the search result, the limit, the
\* UIDs whose fetch fails and the UIDs whose message does not parse are the
\* inputs.
FetchMessageListCall ==
    /\ fl.pc = "idle"
    /\ \E S \in SUBSET (1..MaxUid), limit \in 0..MaxLimit :
         \E failing \in SUBSET S, malformed \in SUBSET S :
           fl' = [pc |-> "called", uids |-> Ascending(S), limit |-> limit,
                  failing |-> failing, malformed |-> malformed,
                  messages |-> << >>, records |-> << >>]
    /\ UNCHANGED <<now, registry, nextId, req, bg, mail>>

\* fetch_message_list returns its list (messages: the UIDs of records).
FetchMessageListReturn ==
    /\ fl.pc = "called"
    /\ fl' = [fl EXCEPT !.pc = "returned",
                        !.messages = fetch_message_list(fl.uids, fl.limit, fl.failing),
                        !.records = FetchedRecords(fl.uids, fl.limit, fl.failing,
                                                   fl.malformed)]
    /\ UNCHANGED <<now, registry, nextId, req, bg, mail>>

\* -------------------------------------------------------------- IMAP client

\* The IMAPClient instances: the inbox handlers' and the background tasks'.
Clients == {"inbox", "poll"}

\* IMAPClient.__init__: no connection (0 stands for None), not connected, no
\* folder selected.  ret is the value the last call on the client returned.
InitImapClient ==
    [connection |-> 0, connected |-> FALSE, selected_folder |-> None,
     ret |-> FALSE]

\* The server: reachable, no session open, none with a mailbox selected.
InitSrv == [up |-> TRUE, open |-> {}, selected |-> {}, next |-> 1,
            mailbox |-> {}]

\* The client's session exists on a reachable server: a command sent on it is
\* answered.
Alive(cl, s) == s.up /\ cl.connection \in s.open

\* connect: imaplib.IMAP4_SSL(...) and login, with no test of self.connected.
\* Reachable: a new session replaces self.connection and connected = True.
\* Unreachable: the constructor raises, connected = False, returns False.
connect(cl, s) ==
    IF s.up
    THEN [cl |-> [cl EXCEPT !.connection = s.next, !.connected = TRUE,
                            !.ret = TRUE],
          srv |-> [s EXCEPT !.open = @ \cup {s.next}, !.next = @ + 1]]
    ELSE [cl |-> [cl EXCEPT !.connected = FALSE, !.ret = FALSE], srv |-> s]

\* disconnect: when connected, close() the selected folder (if any) and
\* logout(); an exception of either skips the rest of the try block.  The
\* finally clause clears connected and connection (not selected_folder).
disconnect(cl, s) ==
    LET live == cl.connection # 0 /\ cl.connected
        folder == live /\ cl.selected_folder # None
        closed == folder /\ Alive(cl, s) /\ cl.connection \in s.selected
        logout == live /\ Alive(cl, s) /\ (folder => closed)
    IN  [cl |-> [cl EXCEPT !.connected = FALSE, !.connection = 0,
                           !.selected_folder = IF closed THEN None ELSE @],
         srv |-> [s EXCEPT !.open = IF logout THEN @ \ {cl.connection} ELSE @,
                           !.selected = IF closed \/ logout
                                        THEN @ \ {cl.connection} ELSE @]]

\* select_folder("INBOX"): False when not connected; otherwise close() when
\* self.selected_folder is set, then select().  close() on a session with no
\* mailbox selected, or any command on a lost session, raises IMAP4.error:
\* False is returned and nothing changes.
select_folder(cl, s) ==
    IF ~cl.connected \/ cl.connection = 0
    THEN [cl |-> [cl EXCEPT !.ret = FALSE], srv |-> s]
    ELSE IF ~Alive(cl, s)
            \/ (cl.selected_folder # None /\ cl.connection \notin s.selected)
    THEN [cl |-> [cl EXCEPT !.ret = FALSE], srv |-> s]
    ELSE [cl |-> [cl EXCEPT !.selected_folder = <<"INBOX">>, !.ret = TRUE],
          srv |-> [s EXCEPT !.selected = @ \cup {cl.connection}]]

\* reconnect: disconnect(), sleep IMAP_RETRY_DELAY, connect().
reconnect(cl, s) ==
    LET d == disconnect(cl, s)
    IN  connect(d.cl, d.srv)

\* ensure_connection: connect() when not connected; otherwise NOOP, and
\* reconnect() when the NOOP raises.
ensure_connection(cl, s) ==
    IF ~cl.connected \/ cl.connection = 0 THEN connect(cl, s)
    ELSE IF Alive(cl, s) THEN [cl |-> [cl EXCEPT !.ret = TRUE], srv |-> s]
    ELSE reconnect(cl, s)

\* A call of connect() on a client.
ConnectCall(c) ==
    /\ srv.next <= MaxSessions
    /\ LET out == connect(imap[c], srv)
       IN  imap' = [imap EXCEPT ![c] = out.cl] /\ srv' = out.srv
    /\ UNCHANGED <<now, registry, nextId, req, bg, fl, cycle, view>>

\* A call of disconnect() on a client.
DisconnectCall(c) ==
    /\ LET out == disconnect(imap[c], srv)
       IN  imap' = [imap EXCEPT ![c] = out.cl] /\ srv' = out.srv
    /\ UNCHANGED <<now, registry, nextId, req, bg, fl, cycle, view>>

\* A call of select_folder("INBOX") on a client.
SelectFolderCall(c) ==
    /\ LET out == select_folder(imap[c], srv)
       IN  imap' = [imap EXCEPT ![c] = out.cl] /\ srv' = out.srv
    /\ UNCHANGED <<now, registry, nextId, req, bg, fl, cycle, view>>

\* A call of ensure_connection() on a client.
EnsureConnectionCall(c) ==
    /\ srv.next <= MaxSessions
    /\ LET out == ensure_connection(imap[c], srv)
       IN  imap' = [imap EXCEPT ![c] = out.cl] /\ srv' = out.srv
    /\ UNCHANGED <<now, registry, nextId, req, bg, fl, cycle, view>>

\* The server becomes unreachable: its sessions are lost.
ServerDown ==
    /\ srv.up
    /\ srv' = [srv EXCEPT !.up = FALSE, !.open = {}, !.selected = {}]
    /\ UNCHANGED <<now, registry, nextId, req, bg, fl, imap, cycle, view>>

\* The server is reachable again.
ServerUp ==
    /\ ~srv.up
    /\ srv' = [srv EXCEPT !.up = TRUE]
    /\ UNCHANGED <<now, registry, nextId, req, bg, fl, imap, cycle, view>>

\* The server drops an idle session.
DropSession ==
    /\ \E id \in srv.open :
         srv' = [srv EXCEPT !.open = @ \ {id}, !.selected = @ \ {id}]
    /\ UNCHANGED <<now, registry, nextId, req, bg, fl, imap, cycle, view>>

\* ---------------------------------------------------- inbox and poll cycle

\* search_emails(recipient): [] when not connected or when select_folder
\* fails; otherwise the UIDs the server's search returns (S, ascending).
search_emails(cl, s, S) ==
    IF ~cl.connected \/ cl.connection = 0
    THEN [cl |-> cl, srv |-> s, uids |-> << >>]
    ELSE LET sel == select_folder(cl, s)
         IN  [cl |-> sel.cl, srv |-> sel.srv,
              uids |-> IF sel.cl.ret THEN Ascending(S) ELSE << >>]

\* What a search for an address's new mail may match on the server: the UIDs
\* 1..k, with the fetch of each of them succeeding or of each of them failing.
\* The messages carry no attachment.
NewMail ==
    UNION {{[uids |-> 1..k, failing |-> {}, attachments |-> 0],
            [uids |-> 1..k, failing |-> 1..k, attachments |-> 0]} :
              k \in 0..MaxNew}

\* One new message found, carrying up to MaxAttachments attachments.
AttachmentMail ==
    {[uids |-> {1}, failing |-> {}, attachments |-> a] : a \in 0..MaxAttachments}

\* EmailParser.prepare_attachment_for_telegram: MAX_ATTACHMENT_SIZE is None,
\* so no attachment is refused for its size; the data is written to a
\* transient file, which is tracked in temp_files with its creation time.
\* When the write raises, None is returned and nothing is tracked.
prepare_attachment_for_telegram(temp_files, t, written) ==
    IF written THEN Append(temp_files, t) ELSE temp_files

\* prepare_attachment_for_telegram for each of k attachments.
RECURSIVE PrepareAll(_, _, _)
PrepareAll(temp_files, t, k) ==
    IF k = 0 THEN temp_files
    ELSE PrepareAll(prepare_attachment_for_telegram(temp_files, t, TRUE), t, k - 1)

\* _process_new_message for each of n new messages: when the message has
\* attachments, prepare_attachment_for_telegram for each of them.
ProcessNewMessages(temp_files, t, n, attachments) ==
    PrepareAll(temp_files, t, n * attachments)

\* EmailParser.cleanup_temp_files: the tracked files older than
\* MAX_TEMP_FILE_AGE are removed.
parser_cleanup_temp_files(temp_files, t) ==
    SelectSeq(temp_files, LAMBDA created_at : ~(t - created_at > MAX_TEMP_FILE_AGE))

\* fetch_message_list(email, limit=MAX_INBOX_MESSAGES, since_date) on a
\* client: search_emails, then the fetches.
FetchInbox(cl, s, S, failing) ==
    LET found == search_emails(cl, s, S)
    IN  [cl |-> found.cl, srv |-> found.srv,
         messages |-> fetch_message_list(found.uids, MAX_INBOX_MESSAGES, failing)]

\* inbox_command / handle_refresh_inbox: get_user; ensure_connection(), its
\* result not looked at; fetch_message_list; update_last_checked; then the
\* inbox or the empty-inbox answer.  The except branch (imap_error answer) is
\* reached when update_last_checked raises (database connection lost).
InboxCommand(tid) ==
    /\ srv.next <= MaxSessions
    /\ IF get_user(registry, tid, TRUE) = {}
       THEN /\ view' = [view EXCEPT !.answer = "no_email", !.ensured = FALSE,
                                     !.shown = None]
            /\ UNCHANGED <<registry, imap, srv>>
       ELSE \E found \in NewMail, db_error \in BOOLEAN :
              LET ens == ensure_connection(imap["inbox"], srv)
                  got == FetchInbox(ens.cl, ens.srv, found.uids, found.failing)
                  n == Len(got.messages)
              IN  /\ imap' = [imap EXCEPT !["inbox"] =
                                 [got.cl EXCEPT !.ret = ens.cl.ret]]
                  /\ srv' = got.srv
                  /\ IF db_error
                     THEN /\ view' = [view EXCEPT !.answer = "imap_error",
                                           !.ensured = ens.cl.ret,
                                           !.shown = None]
                          /\ UNCHANGED registry
                     ELSE /\ \E out \in update_last_checked(registry, tid, now) :
                               registry' = out.coll
                          /\ view' = [view EXCEPT
                                         !.answer = IF n > 0 THEN "inbox" ELSE "empty",
                                         !.ensured = ens.cl.ret,
                                         !.shown = None]
    /\ UNCHANGED <<now, nextId, req, bg, fl, cycle>>

\* The addresses a message may be delivered to: those of the registry's
\* entries.
Recipients == {d.email : d \in registry}

\* fetch_message(uid) on a client: None (the empty set) when the client is not
\* connected or when the UID FETCH raises (no live session, or no mailbox
\* selected in it); otherwise the mailbox's message with that UID, if there
\* is one.  The UID is the only thing the message is looked up by.
FetchByUid(cl, s, uid) ==
    IF /\ cl.connected
       /\ cl.connection # 0
       /\ Alive(cl, s)
       /\ cl.connection \in s.selected
    THEN {m \in s.mailbox : m.uid = uid}
    ELSE {}

\* What the requester is shown of the fetched message: its recipient.
Shown(tid, message_data) ==
    <<[tid |-> tid, to |-> (CHOOSE m \in message_data : TRUE).to]>>

\* handle_view_message with the UID of its callback data: get_user;
\* ensure_connection(); fetch_message(uid); the formatted message is shown,
\* or the failed-to-load answer.
HandleViewMessage(tid) ==
    /\ srv.next <= MaxSessions
    /\ IF get_user(registry, tid, TRUE) = {}
       THEN /\ view' = [view EXCEPT !.answer = "no_email", !.ensured = FALSE,
                                     !.shown = None]
            /\ UNCHANGED <<imap, srv>>
       ELSE \E uid \in 1..MaxMessages :
              LET ens == ensure_connection(imap["inbox"], srv)
                  message_data == FetchByUid(ens.cl, ens.srv, uid)
              IN  /\ imap' = [imap EXCEPT !["inbox"] = ens.cl]
                  /\ srv' = ens.srv
                  /\ view' = IF message_data # {}
                             THEN [view EXCEPT !.answer = "message",
                                      !.ensured = ens.cl.ret,
                                      !.shown = Shown(tid, message_data)]
                             ELSE [view EXCEPT !.answer = "load_failed",
                                      !.ensured = ens.cl.ret,
                                      !.shown = None]
    /\ UNCHANGED <<now, registry, nextId, req, bg, fl, cycle>>

\* handle_download_single_attachment with the UID and the index of its
\* callback data: get_user; ensure_connection(); fetch_message(uid); the
\* attachment at attachment_index is prepared (written to a transient file)
\* and sent; then cleanup_temp_files().
HandleDownloadSingleAttachment(tid) ==
    /\ srv.next <= MaxSessions
    /\ IF get_user(registry, tid, TRUE) = {}
       THEN /\ view' = [view EXCEPT !.answer = "no_email", !.ensured = FALSE,
                                     !.shown = None]
            /\ UNCHANGED <<imap, srv>>
       ELSE \E uid \in 1..MaxMessages, attachments \in 0..MaxAttachments,
               attachment_index \in 0..MaxAttachments, written \in BOOLEAN :
              LET ens == ensure_connection(imap["inbox"], srv)
                  message_data == FetchByUid(ens.cl, ens.srv, uid)
                  files == prepare_attachment_for_telegram(view.temp_files, now,
                                                           written)
              IN  /\ Len(files) <= MaxFiles
                  /\ imap' = [imap EXCEPT !["inbox"] = ens.cl]
                  /\ srv' = ens.srv
                  /\ view' =
                       IF message_data = {}
                       THEN [view EXCEPT !.answer = "load_failed",
                                !.ensured = ens.cl.ret, !.shown = None]
                       ELSE IF attachment_index >= attachments
                       THEN [view EXCEPT !.answer = "attachment_not_found",
                                !.ensured = ens.cl.ret, !.shown = None]
                       ELSE [view EXCEPT
                                !.answer = IF written THEN "attachment_sent"
                                           ELSE "prepare_failed",
                                !.ensured = ens.cl.ret,
                                !.shown = IF written
                                          THEN Shown(tid, message_data)
                                          ELSE None,
                                !.temp_files =
                                    parser_cleanup_temp_files(files, now)]
    /\ UNCHANGED <<now, registry, nextId, req, bg, fl, cycle>>

\* The documents of a collection in listing (insertion) order, each with its
\* _id and the telegram_id the cycle reads from it.
RECURSIVE Listing(_)
Listing(docs) ==
    IF docs = {} THEN << >>
    ELSE LET d == CHOOSE x \in docs : \A y \in docs : x.oid <= y.oid
         IN  <<[oid |-> d.oid, telegram_id |-> d.telegram_id]>>
                 \o Listing(docs \ {d})

\* A cycle that ended before its first entry.
EndedCycle(outcome, users) ==
    [pc |-> "returned", outcome |-> outcome, users |-> users, idx |-> 1,
     visited |-> << >>, failed |-> {}, new_message_count |-> 0]

\* Mutation of _fetch_emails_for_all_users: the result of ensure_connection
\* is not looked at.
BeginCycleUnchecked(coll, cl, s) ==
    LET users == Listing(get_all_active_users(coll))
        ens == ensure_connection(cl, s)
    IN  IF users = << >>
        THEN [cycle |-> EndedCycle("no_users", << >>), cl |-> cl, srv |-> s]
        ELSE [cycle |-> [EndedCycle("running", users) EXCEPT !.pc = "users"],
              cl |-> ens.cl, srv |-> ens.srv]

\* _fetch_emails_for_all_users up to its for loop: get_all_active_users;
\* return when there is none; ensure_connection(), and return when it fails.
BeginCycle(coll, cl, s) ==
    LET users == Listing(get_all_active_users(coll))
        ens == ensure_connection(cl, s)
    IN  IF users = << >>
        THEN [cycle |-> EndedCycle("no_users", << >>), cl |-> cl, srv |-> s]
        ELSE IF ~ens.cl.ret
        THEN [cycle |-> EndedCycle("no_connection", << >>),
              cl |-> ens.cl, srv |-> ens.srv]
        ELSE [cycle |-> [EndedCycle("running", users) EXCEPT !.pc = "users"],
              cl |-> ens.cl, srv |-> ens.srv]

\* Mutation of the for loop: an exception of one entry ends the cycle.
NextEntryStopsOnError(cy, tid, n, error) ==
    IF error THEN EndedCycle("done", << >>)
    ELSE [cy EXCEPT !.idx = @ + 1,
                    !.visited = Append(@, tid),
                    !.new_message_count = n]

\* The for loop of _fetch_emails_for_all_users after one entry: an exception
\* of the entry is logged and the loop goes on to the next entry.
NextEntry(cy, tid, n, error) ==
    [cy EXCEPT !.idx = @ + 1,
               !.visited = Append(@, tid),
               !.failed = IF error THEN @ \cup {tid} ELSE @,
               !.new_message_count = n]

\* Where the database connection may be lost while an entry is updated.
DbErrors == {"none", "increment", "touch"}

\* The registry updates of _fetch_emails_for_user when new_message_count > 0:
\* increment_message_count(telegram_id), then
\* update_last_checked(telegram_id); either raises ConnectionError when the
\* database connection is lost, and what was written before stays.
CountAndTouch(coll, tid, t, db_error) ==
    IF db_error = "increment" THEN {coll}
    ELSE IF db_error = "touch"
    THEN {o1.coll : o1 \in increment_message_count(coll, tid, t)}
    ELSE UNION {{o2.coll : o2 \in update_last_checked(o1.coll, tid, t)} :
                   o1 \in increment_message_count(coll, tid, t)}

\* A direct call of _fetch_emails_for_all_users (one poll cycle).
PollCycleCall ==
    /\ cycle.pc # "users"
    /\ srv.next <= MaxSessions
    /\ LET out == BeginCycle(registry, imap["poll"], srv)
       IN  /\ cycle' = out.cycle
           /\ imap' = [imap EXCEPT !["poll"] = out.cl]
           /\ srv' = out.srv
    /\ UNCHANGED <<now, registry, nextId, req, bg, fl, view>>

\* _fetch_emails_for_user for one entry once its search has matched `found`:
\* the fetches; with no message, return; otherwise every message is processed
\* and the registry is updated.  A raised exception (the database connection
\* lost at an update) is caught.
PollEntry(tid, found, db_error) ==
    LET got == FetchInbox(imap["poll"], srv, found.uids, found.failing)
        n == Len(got.messages)
        error == n > 0 /\ db_error # "none"
        files == ProcessNewMessages(bg.temp_files, now, n, found.attachments)
    IN  /\ Len(files) <= MaxFiles
        /\ imap' = [imap EXCEPT !["poll"] = got.cl]
        /\ srv' = got.srv
        /\ cycle' = NextEntry(cycle, tid, n, error)
        /\ bg' = [bg EXCEPT !.temp_files = files]
        /\ IF n > 0
           THEN registry' \in CountAndTouch(registry, tid, now, db_error)
           ELSE UNCHANGED registry
        /\ UNCHANGED <<now, nextId, req, fl, view>>

\* _fetch_emails_for_user for the next entry of the loaded list, its search
\* matching one of `mails`.
PollUserOn(mails) ==
    /\ cycle.pc = "users"
    /\ cycle.idx <= Len(cycle.users)
    /\ \A d \in registry : d.message_count < MaxPolled
    /\ \E found \in mails, db_error \in DbErrors :
           PollEntry(cycle.users[cycle.idx].telegram_id, found, db_error)

\* The entry's new messages carry no attachment.
PollUser == PollUserOn(NewMail)

\* The entry has one new message, which may carry attachments.
PollUserAttachments == PollUserOn(AttachmentMail)

\* A message for one of the registry's addresses is delivered to the mailbox;
\* the server gives it the next UID and its internal date.
Deliver ==
    /\ Cardinality(srv.mailbox) < MaxMessages
    /\ \E to \in Recipients :
           srv' = [srv EXCEPT !.mailbox = @ \cup
                      {[uid |-> Cardinality(srv.mailbox) + 1, to |-> to,
                        received |-> now]}]
    /\ UNCHANGED <<now, registry, nextId, req, bg, fl, imap, cycle, view>>

\* strftime("%d-%b-%Y"): the day of an instant.
DateOf(t) == t \div MINUTES_PER_DAY

\* The UID SEARCH of search_emails, (TO "<recipient>") (SINCE <date>): the
\* messages to the recipient whose internal date is the day of since_date or
\* a later day.
SearchSince(mailbox, recipient_email, since_date) ==
    {m.uid : m \in {x \in mailbox : /\ x.to = recipient_email
                                    /\ DateOf(x.received) >= DateOf(since_date)}}

\* _fetch_emails_for_user for the next entry of the loaded list, its search
\* run on the server's mailbox with the entry's email and last_checked.  No
\* other writer of the entry runs between the listing and the entry's turn
\* in the specification this action is part of, so both are read from the
\* registry.
PollUserMailbox ==
    /\ cycle.pc = "users"
    /\ cycle.idx <= Len(cycle.users)
    /\ \A d \in registry : d.message_count <= MaxPolled
    /\ \E user_data \in {d \in registry : d.oid = cycle.users[cycle.idx].oid},
          db_error \in DbErrors :
           PollEntry(user_data.telegram_id,
                     [uids |-> SearchSince(srv.mailbox, user_data.email,
                                           user_data.last_checked),
                      failing |-> {}, attachments |-> 0],
                     db_error)

\* _fetch_emails_for_all_users returns once its for loop is exhausted.
PollCycleReturn ==
    /\ cycle.pc = "users"
    /\ cycle.idx > Len(cycle.users)
    /\ cycle' = EndedCycle("done", << >>)
    /\ UNCHANGED <<now, registry, nextId, req, bg, fl, imap, srv, view>>

\* ------------------------------------------------------- background loops

\* TempMailBot.start_background_tasks: asyncio.create_task for each of the
\* two loops.  Nothing here (or anywhere else) sets BackgroundTasks.running.
StartBackgroundTasks ==
    /\ ~bg.started
    /\ bg' = [bg EXCEPT !.started = TRUE, !.fetch_loop = "scheduled",
                        !.cleanup_loop = "scheduled"]
    /\ UNCHANGED <<now, registry, nextId, req, fl, mail>>

\* config.py at import: BACKGROUND_FETCH_INTERVAL is read from the
\* environment.
LoadConfig ==
    /\ ~bg.started
    /\ bg.error_sleep = None
    /\ \E i \in 1..MaxInterval : bg' = [bg EXCEPT !.interval = i]
    /\ UNCHANGED <<now, registry, nextId, req, fl, mail>>

\* The except Exception clause of email_fetching_loop: the loop sleeps
\* min(BACKGROUND_FETCH_INTERVAL, 60) seconds before its next test.
ErrorSleepInterval(interval) == Min(interval, ERROR_SLEEP_SECONDS)

FetchLoopErrorSleep ==
    /\ bg.error_sleep = None
    /\ bg' = [bg EXCEPT !.error_sleep = <<ErrorSleepInterval(bg.interval)>>]
    /\ UNCHANGED <<now, registry, nextId, req, fl, mail>>

\* Mutation of the loop test: while True.
LoopTestAlways(b) == TRUE

\* The test of both loops: while self.running.
LoopTest(b) == b.running

\* email_fetching_loop at its loop test, on first being run or after
\* asyncio.sleep(BACKGROUND_FETCH_INTERVAL): while self.running, a cycle of
\* _fetch_emails_for_all_users is begun (the loop sleeps once it has
\* returned); otherwise the loop is left and the coroutine returns.
EmailFetchingLoop ==
    /\ bg.fetch_loop \in {"scheduled", "sleeping"}
    /\ cycle.pc # "users"
    /\ IF LoopTest(bg)
       THEN /\ srv.next <= MaxSessions
            /\ LET out == BeginCycle(registry, imap["poll"], srv)
               IN  /\ cycle' = out.cycle
                   /\ imap' = [imap EXCEPT !["poll"] = out.cl]
                   /\ srv' = out.srv
            /\ bg' = [bg EXCEPT !.fetch_loop = "sleeping"]
       ELSE /\ bg' = [bg EXCEPT !.fetch_loop = "stopped"]
            /\ UNCHANGED <<imap, srv, cycle>>
    /\ UNCHANGED <<now, registry, nextId, req, fl, view>>

\* cleanup_loop at its loop test: while self.running, _perform_cleanup_tasks
\* (delete_expired_users, then the parser's cleanup_temp_files) and sleep
\* CLEANUP_INTERVAL; otherwise the coroutine returns.
CleanupLoop ==
    /\ bg.cleanup_loop \in {"scheduled", "sleeping"}
    /\ IF LoopTest(bg)
       THEN /\ registry' = delete_expired_users(registry, now).coll
            /\ bg' = [bg EXCEPT !.cleanup_loop = "sleeping",
                                !.temp_files = parser_cleanup_temp_files(@, now)]
       ELSE /\ bg' = [bg EXCEPT !.cleanup_loop = "stopped"]
            /\ UNCHANGED registry
    /\ UNCHANGED <<now, nextId, req, fl, mail>>

\* TempMailBot.shutdown: background_tasks.stop() sets running = False.
Stop ==
    /\ bg.started
    /\ ~bg.stop_requested
    /\ bg' = [bg EXCEPT !.running = FALSE, !.stop_requested = TRUE]
    /\ UNCHANGED <<now, registry, nextId, req, fl, mail>>

\* No poll cycle in progress; no inbox request answered yet.
InitCycle ==
    [pc |-> "idle", outcome |-> "none", users |-> << >>, idx |-> 1,
     visited |-> << >>, failed |-> {}, new_message_count |-> 0]

InitView ==
    [answer |-> "none", ensured |-> FALSE, shown |-> None, temp_files |-> << >>]

\* BackgroundTasks.__init__: running = False, no loop task created yet.
InitBg == [running |-> FALSE, started |-> FALSE, stop_requested |-> FALSE,
           fetch_loop |-> "none", cleanup_loop |-> "none",
           interval |-> BACKGROUND_FETCH_INTERVAL, error_sleep |-> None,
           temp_files |-> << >>]

\* No fetch_message_list call in progress.
InitFl == [pc |-> "idle", uids |-> << >>, limit |-> 0, failing |-> {},
           malformed |-> {}, messages |-> << >>, records |-> << >>]

Init ==
    /\ now = 0
    /\ registry = {}
    /\ nextId = 1
    /\ req = [r \in Reqs |-> IdleReq]
    /\ bg = InitBg
    /\ fl = InitFl
    /\ imap = [c \in Clients |-> InitImapClient]
    /\ srv = InitSrv
    /\ cycle = InitCycle
    /\ view = InitView

Next ==
    \/ \E r \in Reqs, tid \in Identities : NewEmailCommand(r, tid)
    \/ \E r \in Reqs : GenerateUniqueEmailAttempt(r)
    \/ \E r \in Reqs : CreateUserDeactivate(r)
    \/ \E r \in Reqs : CreateUserInsert(r)
    \/ \E r \in Reqs : HandlerReturn(r)
    \/ \E tid \in Identities : HandleConfirmDelete(tid)
    \/ DeleteExpiredUsersCall
    \/ Tick(CoarseInstants)

\* Concurrent provisioning requests interleaved with deletions, expiry sweeps
\* and the clock.
Spec == Init /\ [][Next]_vars

\* Requests served one at a time (one handler coroutine).
Provision ==
    \/ \E tid \in Identities : NewEmailCommand("r1", tid)
    \/ GenerateUniqueEmailAttempt("r1")
    \/ CreateUserDeactivate("r1")
    \/ CreateUserInsert("r1")
    \/ HandlerReturn("r1")

NextSweep ==
    \/ Provision
    \/ \E tid \in Identities : HandleConfirmDelete(tid)
    \/ DeleteExpiredUsersCall
    \/ Tick(FineInstants)

\* Provisioning, deletion and the expiry sweep around the expiry time.
SpecSweep == Init /\ [][NextSweep]_vars

NextCounters ==
    \/ Provision
    \/ \E tid \in Identities : HandleConfirmDelete(tid)
    \/ DeleteExpiredUsersCall
    \/ \E tid \in Identities : IncrementMessageCountCall(tid)
    \/ \E tid \in Identities : UpdateLastCheckedCall(tid)
    \/ Tick(CoarseInstants)

\* Every registry call, the poll-side ones (increment_message_count,
\* update_last_checked) included.
SpecCounters == Init /\ [][NextCounters]_vars

NextLifecycle ==
    \/ Provision
    \/ HandleConfirmDelete(1)
    \/ DeleteExpiredUsersCall
    \/ CleanupTempFilesCall
    \/ IncrementMessageCountCall(1)
    \/ UpdateLastCheckedCall(1)
    \/ Tick(PurgeInstants)

\* Every writer of the registry, the retention purge included, over the
\* retention period: identity 1 deletes its entry and is polled, identity 2
\* lets its entry expire.
SpecLifecycle == Init /\ [][NextLifecycle]_vars

NextLoops ==
    \/ Provision
    \/ StartBackgroundTasks
    \/ EmailFetchingLoop
    \/ CleanupLoop
    \/ Stop
    \/ Tick(FineInstants)

\* The process: requests served while the two background loops are started,
\* run and stopped.  The expiry sweep and the poll run only from the loops.
SpecLoops == Init /\ [][NextLoops]_vars

\* The same process with the two loop tasks scheduled by the event loop
\* whenever they are runnable.
SpecLoopsFair ==
    /\ Init /\ [][NextLoops]_vars
    /\ WF_vars(EmailFetchingLoop)
    /\ WF_vars(CleanupLoop)

NextErrorSleep ==
    \/ LoadConfig
    \/ FetchLoopErrorSleep

\* The sleep of the fetching loop's error path, for each configured interval.
SpecErrorSleep == Init /\ [][NextErrorSleep]_vars

NextGenerate ==
    \/ Provision
    \/ GenerateUniqueEmailLookupFails("r1")
    \/ \E tid \in Identities : HandleConfirmDelete(tid)
    \/ Tick(CoarseInstants)

\* Address generation with lookups that may fail, over registries that hold
\* active and inactive entries.
SpecGenerate == Init /\ [][NextGenerate]_vars

NextAttachments ==
    \/ NewEmailCommand("r1", 1)
    \/ GenerateUniqueEmailAttempt("r1")
    \/ CreateUserDeactivate("r1")
    \/ CreateUserInsert("r1")
    \/ HandlerReturn("r1")
    \/ \E tid \in Identities : InboxCommand(tid)
    \/ Deliver
    \/ \E tid \in Identities : HandleDownloadSingleAttachment(tid)
    \/ PollCycleCall
    \/ PollUserAttachments
    \/ PollCycleReturn
    \/ Tick(CoarseInstants)

\* The two writers of transient files: attachment downloads and poll cycles
\* over messages that carry attachments.
SpecAttachments == Init /\ [][NextAttachments]_vars

NextView ==
    \/ Provision
    \/ Deliver
    \/ \E tid \in Identities : InboxCommand(tid)
    \/ \E tid \in Identities : HandleViewMessage(tid)
    \/ \E tid \in Identities : HandleDownloadSingleAttachment(tid)

\* Two identities with their addresses, a mailbox that messages for them are
\* delivered to, and the handlers that list the inbox, show a message and
\* send an attachment.
SpecView == Init /\ [][NextView]_vars

NextSession ==
    \/ \E c \in Clients : EnsureConnectionCall(c)
    \/ \E c \in Clients : SelectFolderCall(c)
    \/ \E c \in Clients : DisconnectCall(c)
    \/ ServerDown
    \/ ServerUp
    \/ DropSession

\* The clients as the handlers and the poll cycle drive them: sessions are
\* opened through ensure_connection only.
SpecSession == Init /\ [][NextSession]_vars

NextFetch ==
    \/ FetchMessageListCall
    \/ FetchMessageListReturn

\* Calls of fetch_message_list over the bounded inputs.
SpecFetch == Init /\ [][NextFetch]_vars

NextPurge ==
    \/ Provision
    \/ \E tid \in Identities : HandleConfirmDelete(tid)
    \/ DeleteExpiredUsersCall
    \/ CleanupTempFilesCall
    \/ Tick(PurgeInstants)

\* Provisioning, deletion, the expiry sweep and the retention purge, over the
\* retention period.
SpecPurge == Init /\ [][NextPurge]_vars

NextInbox ==
    \/ Provision
    \/ \E tid \in Identities : InboxCommand(tid)
    \/ ServerDown
    \/ ServerUp
    \/ DropSession
    \/ Tick(CoarseInstants)

\* Inbox requests against a server that may drop sessions or become
\* unreachable.
SpecInbox == Init /\ [][NextInbox]_vars

NextPoll ==
    \/ Provision
    \/ PollCycleCall
    \/ PollUser
    \/ PollCycleReturn
    \/ ServerDown
    \/ ServerUp
    \/ Tick(CoarseInstants)

\* Poll cycles against a server that may become unreachable.
SpecPoll == Init /\ [][NextPoll]_vars

NextChecked ==
    \/ NewEmailCommand("r1", 1)
    \/ GenerateUniqueEmailAttempt("r1")
    \/ CreateUserDeactivate("r1")
    \/ CreateUserInsert("r1")
    \/ HandlerReturn("r1")
    \/ HandleConfirmDelete(1)
    \/ \E tid \in Identities : InboxCommand(tid)
    \/ PollCycleCall
    \/ PollUser
    \/ PollCycleReturn
    \/ Tick(CoarseInstants)

\* Every writer of last_checked: one identity's provisioning, inbox views and
\* refreshes, and poll cycles, with deletion and the clock.
SpecChecked == Init /\ [][NextChecked]_vars

NextMailbox ==
    \/ NewEmailCommand("r1", 1)
    \/ GenerateUniqueEmailAttempt("r1")
    \/ CreateUserDeactivate("r1")
    \/ CreateUserInsert("r1")
    \/ HandlerReturn("r1")
    \/ Deliver
    \/ PollCycleCall
    \/ PollUserMailbox
    \/ PollCycleReturn
    \/ Tick(CoarseInstants)

\* Poll cycles over a mailbox that messages are delivered to.
SpecMailbox == Init /\ [][NextMailbox]_vars

NextImap ==
    \/ \E c \in Clients : ConnectCall(c)
    \/ \E c \in Clients : DisconnectCall(c)
    \/ \E c \in Clients : SelectFolderCall(c)
    \/ \E c \in Clients : EnsureConnectionCall(c)
    \/ ServerDown
    \/ ServerUp
    \/ DropSession

\* Calls on the IMAP clients against a server that may drop sessions or
\* become unreachable.
SpecImap == Init /\ [][NextImap]_vars

\* ------------------------------------------------------------ properties

\* The active entries of an identity.
ActiveOf(tid) == {d \in registry : d.telegram_id = tid /\ d.is_active}

\* C1: for every identity, in every state reachable by any interleaving of
\* provisioning, address deletion and expiry sweeps, the registry holds at
\* most one entry with is_active = true.
C1_AtMostOneActive ==
    \A tid \in Identities : Cardinality(ActiveOf(tid)) <= 1

\* C1 case: one identity holds an active entry while the other identity's
\* entry has been deactivated by the expiry sweep.
C1_Witness ==
    \E d \in registry, e \in registry :
        /\ d.telegram_id # e.telegram_id
        /\ d.is_active
        /\ ~e.is_active
        /\ e.deactivation_reason = <<"expired">>

\* C2: with requests served one at a time, every create_user call (in
\* particular one for an identity whose previous entry was deactivated by
\* deletion or by the sweep) succeeds: the requester is answered with the new
\* address and the identity is left with exactly one active entry, holding
\* the new address with zeroed counters.
C2_CreateSucceeds ==
    [][\A r \in Reqs :
          (req[r].pc = "inserting" /\ CreateUserInsert(r))
          => /\ req'[r].status = "email_created"
             /\ \E d \in registry' :
                   /\ {e \in registry' : e.telegram_id = req[r].tid /\ e.is_active} = {d}
                   /\ d.email = req[r].email
                   /\ d.message_count = 0
                   /\ d.total_messages_received = 0]_vars

\* C3: a provisioning request for an identity that has an active entry is
\* answered user_already_has_email with that entry's address, generates no
\* address, and leaves the registry unchanged.
C3_AlreadyActiveRefused ==
    [][\A r \in Reqs, tid \in Identities :
          (ActiveOf(tid) # {} /\ NewEmailCommand(r, tid))
          => /\ req'[r].pc = "done"
             /\ req'[r].status = "user_already_has_email"
             /\ req'[r].existing_email \in {d.email : d \in ActiveOf(tid)}
             /\ req'[r].email = None
             /\ registry' = registry
             /\ nextId' = nextId]_vars

\* C3 case: a request has been refused with the address of the identity's
\* active entry.
C3_Witness ==
    \E r \in Reqs :
        /\ req[r].status = "user_already_has_email"
        /\ \E d \in ActiveOf(req[r].tid) : req[r].existing_email = d.email

\* C4: every registry entry has expires_at = created_at + EMAIL_EXPIRY_TIME
\* in every reachable state, and no step changes the created_at or the
\* expires_at of an entry or removes an entry.
C4_ExpiryFixed ==
    /\ [](\A d \in registry : d.expires_at = d.created_at + EMAIL_EXPIRY_TIME)
    /\ [][\A d \in registry :
             \E e \in registry' :
                /\ e.oid = d.oid
                /\ e.created_at = d.created_at
                /\ e.expires_at = d.expires_at]_vars

\* C4 case: an entry that has been polled (counters, last_checked) after its
\* creation and then deactivated by the sweep.
C4_Witness ==
    \E d \in registry :
        /\ d.message_count > 0
        /\ d.last_checked > d.created_at
        /\ ~d.is_active
        /\ d.deactivation_reason = <<"expired">>

\* C5: delete_expired_users run at the current time deactivates exactly the
\* entries that are active with expires_at in the past, stamps each with
\* deactivation_reason "expired" and the current time, returns their count,
\* and leaves every other entry (expires_at not yet passed, or already
\* inactive) unchanged.
C5_SweepExact ==
    LET out == delete_expired_users(registry, now)
        due == {d \in registry : d.is_active /\ d.expires_at < now}
    IN  /\ out.count = Cardinality(due)
        /\ \A d \in registry \ due : d \in out.coll
        /\ \A d \in due :
              \E e \in out.coll :
                 /\ e = [d EXCEPT !.is_active = FALSE,
                                  !.deactivated_at = <<now>>,
                                  !.deactivation_reason = <<"expired">>]
        /\ Cardinality(out.coll) = Cardinality(registry)
        /\ \A d \in registry :
              (d.is_active /\ now <= d.created_at + EMAIL_EXPIRY_TIME - 1)
              => d \in out.coll

\* C5 case: an entry deactivated by a sweep run 61 minutes after its
\* creation.
C5_Witness ==
    \E d \in registry :
        /\ ~d.is_active
        /\ d.deactivation_reason = <<"expired">>
        /\ d.deactivated_at = <<d.created_at + 61>>

\* C6: once the background tasks are started, each of the two loops keeps
\* cycling until stop is requested: a loop has not ended unless stop was
\* requested.
C6_LoopsCycleUntilStop ==
    (bg.started /\ ~bg.stop_requested)
    => (bg.fetch_loop # "stopped" /\ bg.cleanup_loop # "stopped")

\* C7: increment_message_count for an identity with an active entry reports
\* success and raises message_count and total_messages_received of that entry
\* by one each, so that after k calls both have grown by k (both count from
\* zero and stay equal); for an identity with no active entry it reports
\* false and changes nothing.
C7_CountersInStep ==
    /\ \A d \in registry : d.message_count = d.total_messages_received
    /\ \A tid \in Identities :
          \A out \in increment_message_count(registry, tid, now) :
             IF ActiveOf(tid) = {}
             THEN ~out.ok /\ out.coll = registry
             ELSE /\ out.ok
                  /\ \E d \in ActiveOf(tid), e \in out.coll :
                        /\ out.coll \ {e} = registry \ {d}
                        /\ e.oid = d.oid
                        /\ e.message_count = d.message_count + 1
                        /\ e.total_messages_received = d.total_messages_received + 1

\* C7 case: an entry after two calls of increment_message_count.
C7_Witness ==
    \E d \in registry :
        /\ d.message_count = 2
        /\ d.total_messages_received = 2
        /\ d.last_message_date # None

\* prefix_suffix@domain with a lowercase-alphanumeric prefix and a
\* lowercase-alphanumeric suffix of EMAIL_RANDOM_LENGTH characters.
WellFormedAddress(email) ==
    LET n == Len(email)
        at == n - Len(EMAIL_DOMAIN)
        us == at - EMAIL_RANDOM_LENGTH - 1
    IN  /\ us > 1
        /\ email[at] = "@"
        /\ email[us] = "_"
        /\ SubSeq(email, at + 1, n) = EMAIL_DOMAIN
        /\ \A i \in (1..(us - 1)) \cup ((us + 1)..(at - 1)) :
              email[i] \in EMAIL_ALLOWED_CHARS

\* C8: no two registry entries (active or inactive) ever hold the same
\* address, in any interleaving of the generate and create steps of requests
\* by distinct identities, and every address is well formed.
C8_AddressesDistinct ==
    /\ \A d \in registry, e \in registry : d.email = e.email => d = e
    /\ \A d \in registry : WellFormedAddress(d.email)

\* The last n elements of s (all of s when it has fewer).
LastN(s, n) == SubSeq(s, Len(s) - Min(n, Len(s)) + 1, Len(s))

\* C9: for every limit, fetch_message_list returns at most limit messages:
\* the successfully fetched ones among the last limit UIDs of the search
\* result, newest first.
C9_AtMostLimitNewestFirst ==
    fl.pc = "returned"
    => /\ Len(fl.messages) <= fl.limit
       /\ fl.messages = SelectSeq(Reversed(LastN(fl.uids, fl.limit)),
                                  LAMBDA uid : uid \notin fl.failing)

\* C10: when two requests of one identity are both past the pre-check before
\* either inserts, at most one of them creates an entry; one that does not is
\* rejected by create_user with "User already exists" and answered as a
\* generation failure.
C10_RaceRejected ==
    \A r \in Reqs, q \in Reqs :
        (/\ r # q
         /\ q \in req[r].racers
         /\ req[r].tid = req[q].tid
         /\ req[r].pc = "done" /\ req[r].email # None
         /\ req[q].pc = "done" /\ req[q].email # None)
        => /\ ~(req[r].status = "email_created" /\ req[q].status = "email_created")
           /\ req[r].status # "email_created"
              => (req[r].status = "generation_failed"
                  /\ req[r].error = "User already exists")

\* C10 case: of two racing requests of one identity, one was answered with
\* its new address and the other with the duplicate-key failure.
C10_Witness ==
    \E r \in Reqs, q \in Reqs :
        /\ r # q
        /\ q \in req[r].racers
        /\ req[r].tid = req[q].tid
        /\ req[r].pc = "done" /\ req[r].status = "email_created"
        /\ req[q].pc = "done" /\ req[q].status = "generation_failed"
        /\ req[q].error = "User already exists"

\* C11: connect() on a client that is already connected is a no-op that
\* returns success: the client keeps its session, the server opens no new
\* session, and the selected folder is unchanged.
C11_ConnectIdempotent ==
    [][\A c \in Clients :
          (imap[c].connected /\ imap[c].connection # 0 /\ ConnectCall(c))
          => /\ imap'[c].ret = TRUE
             /\ imap'[c].connection = imap[c].connection
             /\ imap'[c].selected_folder = imap[c].selected_folder
             /\ srv'.open = srv.open
             /\ srv'.next = srv.next]_vars

\* C12: deactivate_user is idempotent: on an identity with an active entry
\* it reports success and sets is_active = false and deactivated_at; a second
\* call, whenever it is made, reports false and leaves the registry (the
\* entry's deactivated_at included) unchanged.
C12_DeactivateIdempotent ==
    \A tid \in Identities :
       \A o1 \in deactivate_user(registry, tid, now) :
          /\ ActiveOf(tid) # {}
             => /\ o1.ok
                /\ \E d \in ActiveOf(tid) :
                      o1.coll = (registry \ {d})
                                \cup {[d EXCEPT !.is_active = FALSE,
                                                !.deactivated_at = <<now>>]}
          /\ ActiveOf(tid) = {} => (~o1.ok /\ o1.coll = registry)
          /\ \A t2 \in {t \in FineInstants : t >= now} :
                \A o2 \in deactivate_user(o1.coll, tid, t2) :
                   ~o2.ok /\ o2.coll = o1.coll

\* C12 case: an entry deactivated by an explicit deletion at an earlier time,
\* so that a second deactivation now would carry a different timestamp.
C12_Witness ==
    \E d \in registry :
        /\ ~d.is_active
        /\ d.deactivation_reason = None
        /\ d.deactivated_at # None
        /\ d.deactivated_at[1] < now

\* C14: every inactive entry carries both deactivated_at and
\* deactivation_reason, whichever way it became inactive (sweep, explicit
\* deletion, replacement on create).
C14_InactiveHasReason ==
    \A d \in registry :
        ~d.is_active => (d.deactivated_at # None /\ d.deactivation_reason # None)

C16_PurgeExact ==
    /\ [](LET out == cleanup_temp_files(registry, now)
              old == {d \in registry :
                         /\ ~d.is_active
                         /\ d.deactivated_at # None
                         /\ d.deactivated_at[1] + RETENTION_PERIOD < now}
          IN  /\ out.coll = registry \ old
              /\ out.count = Cardinality(old)
              /\ \A d \in registry : d.is_active => d \in out.coll)
    /\ [][((\E tid \in Identities : HandleConfirmDelete(tid))
           \/ DeleteExpiredUsersCall)
          => {d.oid : d \in registry'} = {d.oid : d \in registry}]_vars

\* C16 case: of two entries created, the purge has removed one and kept the
\* other, which is inactive but was deactivated within the retention period.
C16_Witness ==
    /\ nextId = 3
    /\ Cardinality(registry) = 1
    /\ \E d \in registry :
          /\ ~d.is_active
          /\ d.deactivated_at # None
          /\ d.deactivated_at[1] + RETENTION_PERIOD >= now

\* C13: when ensure_connection fails, an inbox request is answered with the
\* connection-failure message (imap_error, with the retry keyboard) and not
\* as an empty inbox.
C13_UnreachableAnswersFailure ==
    (view.answer \in {"inbox", "empty", "imap_error"} /\ ~view.ensured)
        => view.answer = "imap_error"

\* A step of PollUser.
PollUserStep ==
    cycle.pc = "users" /\ cycle'.pc = "users" /\ cycle'.idx = cycle.idx + 1

\* C17: a poll cycle whose ensure_connection fails is skipped as a whole: it
\* returns before its first entry, no entry is searched, the registry is as
\* it was, and the next cycle can be begun.
C17_FailedCycleSkipped ==
    [][(/\ cycle.pc # "users"
        /\ cycle' # cycle
        /\ get_all_active_users(registry) # {}
        /\ ~imap'["poll"].ret)
       => (/\ cycle'.pc = "returned"
           /\ cycle'.outcome = "no_connection"
           /\ cycle'.visited = << >>
           /\ registry' = registry
           /\ srv'.selected = srv.selected)]_vars

C17_Witness ==
    /\ cycle.outcome = "no_connection"
    /\ get_all_active_users(registry) # {}
    /\ ~imap["poll"].ret

\* C18: in a cycle that got past ensure_connection the entries of the loaded
\* list are processed one after another in listing order, and the cycle does
\* not end before every entry of the list has been processed, whether or not
\* an earlier entry failed.
C18_LaterEntriesProcessed ==
    /\ [](cycle.pc = "users" =>
            /\ cycle.idx <= Len(cycle.users) + 1
            /\ cycle.visited =
                 [i \in 1..(cycle.idx - 1) |-> cycle.users[i].telegram_id]
            /\ \A i, j \in 1..Len(cycle.users) :
                 i < j => cycle.users[i].oid < cycle.users[j].oid)
    /\ [][(cycle.pc = "users" /\ cycle'.pc # "users")
            => cycle.idx > Len(cycle.users)]_vars

C18_Witness ==
    /\ cycle.pc = "users"
    /\ cycle.idx = 3
    /\ cycle.visited[1] \in cycle.failed
    /\ cycle.visited[2] \notin cycle.failed
    /\ cycle.new_message_count > 0

\* C19: when a poll cycle finds n >= 1 new messages for an active entry and
\* its updates go through, the entry's message_count and
\* total_messages_received each grow by n and its last_checked is the
\* current time.
C19_CountersGrowByN ==
    [][(PollUserStep /\ cycle'.new_message_count >= 1
          /\ cycle'.failed = cycle.failed)
       => \A d \in get_user(registry, cycle.users[cycle.idx].telegram_id, TRUE) :
            \E e \in registry' :
              /\ e.oid = d.oid
              /\ e.message_count = d.message_count + cycle'.new_message_count
              /\ e.total_messages_received =
                   d.total_messages_received + cycle'.new_message_count
              /\ e.last_checked = now]_vars

\* C20: the last_checked of an entry starts at its created_at and never
\* decreases over poll cycles, inbox views and refreshes.
C20_LastCheckedMonotone ==
    /\ [](\A d \in registry : d.last_checked >= d.created_at)
    /\ [][\A d \in registry : \A e \in registry' :
            e.oid = d.oid => e.last_checked >= d.last_checked]_vars

C20_Witness ==
    \E d \in registry :
        /\ d.is_active
        /\ d.last_checked > d.created_at
        /\ d.message_count > 0
        /\ view.answer \in {"inbox", "empty"}

C22_ErrorSleepAtLeastMinute ==
    bg.error_sleep # None => bg.error_sleep[1] >= 60

\* C23: generate_unique_email makes at most EMAIL_MAX_GENERATION_ATTEMPTS
\* attempts, each either ending the call or using up one attempt; it returns
\* an address only when no entry, active or inactive, held it at the lookup;
\* and when it fails, it is after the last attempt, with the exhausted-attempts
\* error.
C23_GenerationBounded ==
    /\ [](\A r \in Reqs : req[r].attempt < EMAIL_MAX_GENERATION_ATTEMPTS)
    /\ [][\A r \in Reqs :
            (req[r].pc = "generating" /\ req'[r] # req[r]) =>
              \/ /\ req'[r].pc = "generating"
                 /\ req'[r].attempt = req[r].attempt + 1
              \/ /\ req'[r].pc = "creating"
                 /\ \A d \in registry : d.email # req'[r].email
              \/ /\ req'[r].pc = "done"
                 /\ req[r].attempt + 1 = EMAIL_MAX_GENERATION_ATTEMPTS
                 /\ req'[r].status = "generation_failed"
                 /\ req'[r].error = "Failed to generate unique email"]_vars

C23_Witness ==
    /\ req["r1"].pc = "done"
    /\ req["r1"].status = "generation_failed"
    /\ req["r1"].error = "Failed to generate unique email"
    /\ \E d \in registry : ~d.is_active

\* C24: a transient file is written only for a download a requester asked
\* for: no step of a poll cycle adds a file to the ones the background
\* parser tracks, also when the new messages carry attachments.
C24_PollWritesNoFiles ==
    [][PollUserStep => bg'.temp_files = bg.temp_files]_vars

\* C25: a create_user call that ended with an exception has left the registry
\* as it found it: its deactivate_user modified no entry.
C25_FailedCreateChangesNothing ==
    \A r \in Reqs :
        (req[r].pc = "done" /\ req[r].status = "generation_failed"
           /\ req[r].error = "User already exists")
        => ~req[r].deactivated

\* An active entry whose expires_at is past.
ExpiredActive(d) == d.is_active /\ d.expires_at < now

\* C26: an entry whose expires_at is past is not treated as active, swept or
\* not: the pre-check of a new-address request is not answered "already has
\* an address" on account of it, an inbox request is not answered with its
\* inbox, and a poll cycle does not load it.
C26_ExpiredNotTreatedActive ==
    [][/\ \A r \in Reqs :
            (req[r].pc = "idle" /\ req'[r].status = "user_already_has_email")
            => \A d \in get_user(registry, req'[r].tid, TRUE) : ~ExpiredActive(d)
       /\ (view' # view /\ view'.answer \in {"inbox", "empty"})
            => \E d \in registry : d.is_active /\ ~ExpiredActive(d)
       /\ (cycle.pc # "users" /\ cycle'.pc = "users")
            => \A i \in 1..Len(cycle'.users) :
                 \A d \in registry :
                   d.oid = cycle'.users[i].oid => ~ExpiredActive(d)]_vars

\* C27: what a client records matches its session: a client that is not
\* connected records no selected folder, and a folder recorded by a client
\* with a live session is selected in that session (so that select_folder
\* succeeds on it).
C27_RecordMatchesSession ==
    \A c \in Clients :
        /\ ~imap[c].connected => imap[c].selected_folder = None
        /\ (imap[c].connected /\ Alive(imap[c], srv)
              /\ imap[c].selected_folder # None)
           => /\ imap[c].connection \in srv.selected
              /\ select_folder(imap[c], srv).cl.ret

\* C28: across poll cycles a message is counted at most once: an entry's
\* total_messages_received never exceeds the number of distinct messages
\* delivered to its address.
C28_CountedAtMostOnce ==
    \A d \in registry :
        d.total_messages_received
            <= Cardinality({m \in srv.mailbox : m.to = d.email})

\* C29: an entry's lifecycle is monotone: an inactive entry is never made
\* active and never modified by any step (its counters, last_checked,
\* deactivated_at and deactivation_reason stay as they are, also when a sweep
\* meets an entry that was deleted explicitly); it only leaves the
\* registry, by the retention purge, once its retention period is over.
C29_InactiveEntryFixed ==
    [][\A d \in registry :
          ~d.is_active =>
              \/ d \in registry'
              \/ /\ IsPurgeable(d, now)
                 /\ \A e \in registry' : e.oid # d.oid]_vars

\* An explicitly deleted entry that a later sweep, run after the entry's
\* expiry, left as it was while it deactivated another entry.
C29_Witness ==
    \E d \in registry, e \in registry :
        /\ ~d.is_active
        /\ d.deactivation_reason = None
        /\ ~e.is_active
        /\ e.deactivation_reason = <<"expired">>
        /\ e.deactivated_at[1] > d.expires_at
        /\ d.deactivated_at[1] < e.deactivated_at[1]

\* C30: viewMessage and downloadAttachment give a requester the content of a
\* message only if the message is addressed to the requester's own active
\* address.
C30_OwnMessagesOnly ==
    [][(view' # view /\ view'.shown # None) =>
          \E d \in get_user(registry, view'.shown[1].tid, TRUE) :
              d.email = view'.shown[1].to]_vars

====
